---- MODULE Spec2Model ----
(***************************************************************************)
(* flowrun (src/flowrun/src/flowrun/main.py): the YAML workflow runner.    *)
(*                                                                         *)
(* Two specifications over one set of variables:                           *)
(*   SpecInterp  the pure function interpolate(text, env, results),        *)
(*               applied to texts, env maps and results maps drawn from    *)
(*               bounded sets;                                             *)
(*   Spec        one invocation of the `run` command: the sequential loop  *)
(*               and the thread-pool (parallel) strategy, with the three   *)
(*               executors and the shared results map.                     *)
(*                                                                         *)
(* Text is modelled as a sequence of one-character strings, so that the    *)
(* regular-expression scan, the slices and the split of interpolate are    *)
(* computed character by character as the Python code computes them.       *)
(***************************************************************************)
EXTENDS Integers, Sequences, FiniteSets, TLC

VARIABLES
    \* ---- interpolate, as a function under test (SpecInterp)
    text,          \* the text handed to interpolate
    ienv,          \* the env map handed to interpolate
    ires,          \* the results map handed to interpolate
    out,           \* what interpolate returned
    ipc,           \* "idle" | "input" | "done"
    \* ---- one invocation of run (Spec)
    steps,         \* the loaded workflow: a sequence of Step records
    parallel,      \* --parallel
    verbose,       \* --verbose
    env,           \* the workflow's env map
    pc,            \* where the main thread of run is
    idx,           \* the sequential loop's position in steps
    st,            \* per step: pending | running | succeeded | failed | raised
    ret,           \* per step: the code its executor returned (NoCode: none)
    returned,      \* per step: the value its script bound to `return` (NoneVal: none)
    exc,           \* per step: the exit status of an exception that escaped (NoCode: none)
    calls,         \* per step: how many times its executor was invoked
    request,       \* per step: the HTTP request it issued (NoRequest: none)
    step_results,  \* the shared results map
    success,       \* run's success flag
    collected,     \* parallel: the futures whose result() the main thread has read
    raising,       \* the exit status of the exception unwinding the main thread (NoCode: none)
    exit_code,     \* the process exit code (NoCode while the run is going)
    \* ---- the workflow document and the finer state of the step tasks
    doc,           \* the `steps` list of the YAML document: a sequence of raw mappings
    where,         \* per step: where its thread is inside execute_step
    sys_stdout,    \* the process-wide sys.stdout: Console, or k for the StringIO of step k
    saved,         \* per step: the stream its redirect_stdout will put back (Console: none kept)
    captured,      \* per step: whose text its StringIO holds, up to the end of its script
    writes         \* the stores made into the results map: key, step, by which way

ivars == <<text, ienv, ires, out, ipc>>
rvars == <<steps, parallel, verbose, env, pc, idx, st, ret, returned, exc, calls, request,
           step_results, success, collected, raising, exit_code,
           doc, where, sys_stdout, saved, captured, writes>>
\* the streams: sys.stdout, and per step the saved target and the captured text
svars == <<sys_stdout, saved, captured>>
vars == <<text, ienv, ires, out, ipc, steps, parallel, verbose, env, pc, idx, st,
          ret, returned, exc, calls, request, step_results, success, collected, raising,
          exit_code, doc, where, sys_stdout, saved, captured, writes>>

(***************************************************************************)
(* Bounds of the model.                                                    *)
(***************************************************************************)
\* a text under test is the concatenation of at most MaxSegs segments
MaxSegs == 2
\* a workflow has at most MaxSteps steps
MaxSteps == 3
\* parallel runs are explored for workflows of at most MaxWorkers steps
MaxWorkers == 2

(***************************************************************************)
(* Characters and strings.                                                 *)
(***************************************************************************)
Newline == "\n"
OpenBraces == <<"{", "{">>
CloseBraces == <<"}", "}">>
EnvPrefix == <<"e", "n", "v", ".">>
StepsPrefix == <<"s", "t", "e", "p", "s", "[">>
StepsSep == <<"'", "]", ".">>
QuoteChars == {"'", "\""}
ResultKey == <<"r", "e", "s", "u", "l", "t">>

\* s[a:b] of Python for 0 <= a, as 1-based SubSeq(s, a+1, b); empty when b <= a
Slice(s, a, b) ==
    LET hi == IF b > Len(s) THEN Len(s) ELSE b
    IN  IF hi <= a THEN <<>> ELSE SubSeq(s, a + 1, hi)

\* whether p occurs in s at (1-based) position i
OccursAt(p, s, i) ==
    /\ i >= 1
    /\ i + Len(p) - 1 <= Len(s)
    /\ \A k \in 1..Len(p) : s[i + k - 1] = p[k]

\* str.startswith
StartsWith(s, p) == OccursAt(p, s, 1)

\* the first position at or after i where p occurs in s; 0 when there is none
RECURSIVE FindFrom(_, _, _)
FindFrom(s, p, i) ==
    IF i + Len(p) - 1 > Len(s) THEN 0
    ELSE IF OccursAt(p, s, i) THEN i
    ELSE FindFrom(s, p, i + 1)

\* str.find, 1-based; 0 when p does not occur in s
Find(s, p) == FindFrom(s, p, 1)

\* str.split(sep): the parts of s between the occurrences of sep
RECURSIVE Split(_, _)
Split(s, sep) ==
    LET n == Find(s, sep)
    IN  IF n = 0 THEN <<s>>
        ELSE <<Slice(s, 0, n - 1)>> \o Split(Slice(s, n - 1 + Len(sep), Len(s)), sep)

\* str.strip(chars): s without its leading and trailing characters of chars
RECURSIVE LStrip(_, _)
LStrip(s, chars) ==
    IF s # <<>> /\ Head(s) \in chars THEN LStrip(Tail(s), chars) ELSE s

RECURSIVE RStrip(_, _)
RStrip(s, chars) ==
    IF s # <<>> /\ s[Len(s)] \in chars THEN RStrip(SubSeq(s, 1, Len(s) - 1), chars) ELSE s

Strip(s, chars) == RStrip(LStrip(s, chars), chars)

(***************************************************************************)
(* Values a script can bind to `return`, and str() of them.                *)
(***************************************************************************)
IntVal(n) == [kind |-> "int", n |-> n, s |-> <<>>]
StrVal(s) == [kind |-> "str", n |-> 0, s |-> s]

DigitChar(d) == <<"0", "1", "2", "3", "4", "5", "6", "7", "8", "9">>[d + 1]

RECURSIVE Digits(_)
Digits(n) == IF n < 10 THEN <<DigitChar(n)>> ELSE Digits(n \div 10) \o <<DigitChar(n % 10)>>

\* str(v)
Str(v) ==
    IF v.kind = "int"
    THEN (IF v.n < 0 THEN <<"-">> \o Digits(0 - v.n) ELSE Digits(v.n))
    ELSE v.s

(***************************************************************************)
(* interpolate.                                                            *)
(***************************************************************************)
\* the f-string f"{{{{{var}}}}}": the placeholder written out again
Placeholder(var) == OpenBraces \o var \o CloseBraces

\* dict.get(key, default)
Get(map, key, default) == IF key \in DOMAIN map THEN map[key] ELSE default

\* the env branch of repl
EnvReplBlank(var, e) == Get(e, Slice(var, 4, Len(var)), <<>>)
EnvRepl(var, e) == Get(e, Slice(var, 4, Len(var)), Placeholder(var))

\* the steps branch of repl; whole is match.group(0)
StepsRepl(var, whole, results) ==
    LET parts == Split(Slice(var, 7, Len(var) - 1), StepsSep)
    IN  IF Len(parts) = 2
        THEN LET step_name == Strip(parts[1], QuoteChars)
                 key == parts[2]
                 entry == Get(results, step_name, <<>>)
             IN  IF key \in DOMAIN entry THEN Str(entry[key]) ELSE Placeholder(var)
        ELSE whole

\* the fall-through of repl: match.group(0)
UnmatchedBlank(whole) == <<>>
Unmatched(whole) == whole

\* repl(match), with var = match.group(1) and whole = match.group(0)
Repl(var, whole, e, results) ==
    IF StartsWith(var, EnvPrefix) THEN EnvRepl(var, e)
    ELSE IF StartsWith(var, StepsPrefix) THEN StepsRepl(var, whole, results)
    ELSE Unmatched(whole)

\* where "}}" closes a match of \{\{(.*?)\}\} that opens at p: the first "}}" at
\* or after p+2, unless a newline comes before it ("." matches no newline); 0: none
CloseOf(t, p) ==
    LET q == FindFrom(t, CloseBraces, p + 2)
    IN  IF q = 0 THEN 0
        ELSE IF \E k \in (p + 2)..(q - 1) : t[k] = Newline THEN 0
        ELSE q

\* the leftmost match of \{\{(.*?)\}\} in t that opens at or after i: <<p, q>>,
\* "{{" at p and "}}" at q; <<0, 0>> when there is none
RECURSIVE MatchFrom(_, _)
MatchFrom(t, i) ==
    LET p == FindFrom(t, OpenBraces, i)
    IN  IF p = 0 THEN <<0, 0>>
        ELSE LET q == CloseOf(t, p)
             IN  IF q # 0 THEN <<p, q>> ELSE MatchFrom(t, p + 1)

FirstMatch(t) == MatchFrom(t, 1)

\* one substitution of re.sub: the match at p..q+1 of t replaced by repl's text,
\* and the scan resumed behind it
RECURSIVE interpolate(_, _, _)
Substitute(t, p, q, e, results) ==
    SubSeq(t, 1, p - 1)
    \o Repl(SubSeq(t, p + 2, q - 1), SubSeq(t, p, q + 1), e, results)
    \o interpolate(SubSeq(t, q + 2, Len(t)), e, results)

\* re.sub(r'\{\{(.*?)\}\}', repl, text)
interpolate(t, e, results) ==
    LET m == FirstMatch(t)
    IN  IF m[1] = 0 THEN t ELSE Substitute(t, m[1], m[2], e, results)

(***************************************************************************)
(* SpecInterp: interpolate applied to bounded inputs.                      *)
(***************************************************************************)
Keys == {<<"X">>, <<"Y">>}
Names == {<<"A">>, <<"B">>}
Values == {IntVal(42), StrVal(<<"o", "k">>)}

\* {{env.K}}
EnvPH(K) == Placeholder(EnvPrefix \o K)
\* {{steps[qNq].f}}, q the quote character
StepsPH(q, N, f) == Placeholder(StepsPrefix \o <<q>> \o N \o <<q, "]", ".">> \o f)

\* text without braces
PlainSegs == {<<"a">>, <<" ">>, EnvPrefix \o <<"X">>}
\* placeholders of the two recognized grammars
EnvSegs == {EnvPH(K) : K \in Keys}
StepsSegs == {StepsPH(q, N, ResultKey) : q \in QuoteChars, N \in Names}
\* other bracketed content, lone braces, a line break, and a steps placeholder
\* with one character after the field name
OtherSegs == {Placeholder(<<"z">>), Placeholder(<<" ">> \o EnvPrefix \o <<"X">>),
              Placeholder(<<"s", "t", "e", "p", "s">>),
              OpenBraces, CloseBraces, <<"{">>, <<"}">>, <<Newline>>,
              StepsPH("'", <<"A">>, ResultKey \o <<" ">>)}
Segments == PlainSegs \cup EnvSegs \cup StepsSegs \cup OtherSegs

RECURSIVE Concat(_)
Concat(ss) == IF ss = <<>> THEN <<>> ELSE Head(ss) \o Concat(Tail(ss))

Texts == {Concat(ss) : ss \in UNION {[1..n -> Segments] : n \in 0..MaxSegs}}

Envs == {<<>>,
         [k \in {<<"X">>} |-> <<"5">>],
         [k \in Keys |-> IF k = <<"X">> THEN <<"5">> ELSE EnvPH(<<"X">>)]}

\* {result: v}
Entry(v) == [f \in {ResultKey} |-> v]

ResultsMaps == UNION {[D -> {Entry(v) : v \in Values}] : D \in SUBSET Names}

\* no return code, no exit status
NoCode == 0 - 1

RunIdle ==
    /\ steps = <<>> /\ parallel = FALSE /\ verbose = FALSE /\ env = <<>>
    /\ pc = "idle" /\ idx = 0 /\ st = <<>> /\ ret = <<>> /\ returned = <<>> /\ exc = <<>>
    /\ calls = <<>> /\ request = <<>> /\ step_results = <<>>
    /\ success = TRUE /\ collected = {} /\ raising = NoCode /\ exit_code = NoCode
    /\ doc = <<>> /\ where = <<>> /\ sys_stdout = {} /\ saved = <<>> /\ captured = <<>>
    /\ writes = {}

InterpIdle ==
    /\ text = <<>> /\ ienv = <<>> /\ ires = <<>> /\ out = <<>> /\ ipc = "idle"

InitInterp ==
    /\ text \in Texts
    /\ ienv \in Envs
    /\ ires \in ResultsMaps
    /\ out = <<>>
    /\ ipc = "input"
    /\ RunIdle

Interpolate ==
    /\ ipc = "input"
    /\ out' = interpolate(text, ienv, ires)
    /\ ipc' = "done"
    /\ UNCHANGED <<text, ienv, ires>>
    /\ UNCHANGED rvars

NextInterp == Interpolate

SpecInterp == InitInterp /\ [][NextInterp]_vars

(***************************************************************************)
(* Spec: one invocation of run.                                            *)
(***************************************************************************)
\* `return` not bound by the script (local_vars.get("return") is None)
NoneVal == [kind |-> "none", n |-> 0, s |-> <<>>]

UrlBase == <<"u", "/">>
HeaderKey == <<"h">>
JsonKey == <<"k">>
PyNames == {<<"A">>}

\* Step.__init__ on a valid document
Step(name, type, coe, url, headers, json) ==
    [name |-> name, type |-> type, continue_on_error |-> coe,
     url |-> url, headers |-> headers, json |-> json]

\* the steps the explored workflows are made of: a shell step, scripted steps,
\* and an HTTP step that refers to step A's result in its url and its JSON body
\* and to env.X in its header
StepDocs ==
    {Step(<<"S">>, "shell", c, <<>>, <<>>, <<>>) : c \in BOOLEAN}
    \cup {Step(n, "python", c, <<>>, <<>>, <<>>) : n \in PyNames, c \in BOOLEAN}
    \cup {Step(<<"H">>, "http", c,
               UrlBase \o StepsPH("'", <<"A">>, ResultKey),
               [h \in {HeaderKey} |-> EnvPH(<<"X">>)],
               [j \in {JsonKey} |-> StrVal(StepsPH("'", <<"A">>, ResultKey))])
          : c \in BOOLEAN}

Workflows == UNION {[1..n -> StepDocs] : n \in 0..MaxSteps}

(***************************************************************************)
(* The workflow document and its loading (Step.__init__, load_workflow).   *)
(* A raw step is the YAML mapping: a function from the keys it has to      *)
(* their values; the type is text, as written in the document.             *)
(***************************************************************************)
UpperCase == <<"A", "B", "C", "D", "E", "F", "G", "H", "I", "J", "K", "L", "M",
               "N", "O", "P", "Q", "R", "S", "T", "U", "V", "W", "X", "Y", "Z">>
LowerCase == <<"a", "b", "c", "d", "e", "f", "g", "h", "i", "j", "k", "l", "m",
               "n", "o", "p", "q", "r", "s", "t", "u", "v", "w", "x", "y", "z">>

\* str.lower()
LowerChar(c) ==
    IF \E i \in DOMAIN UpperCase : UpperCase[i] = c
    THEN LowerCase[CHOOSE i \in DOMAIN UpperCase : UpperCase[i] = c]
    ELSE c
Lower(s) == [i \in DOMAIN s |-> LowerChar(s[i])]

ShellType == <<"s", "h", "e", "l", "l">>
PythonType == <<"p", "y", "t", "h", "o", "n">>
HttpType == <<"h", "t", "t", "p">>
UnnamedStep == <<"U", "n", "n", "a", "m", "e", "d", " ", "s", "t", "e", "p">>

\* the type of a Step, self.type, as the tag the Step records of the model carry
TypeTag(t) ==
    CASE t = ShellType -> "shell"
      [] t = PythonType -> "python"
      [] t = HttpType -> "http"
      [] OTHER -> "other"

\* self.type = data.get("type", "").lower()
TypeOf(raw) == Lower(Get(raw, "type", <<>>))

\* the checks of Step.__init__ pass: no ValueError is raised
ValidStepAny(raw) == TRUE
ValidStep(raw) ==
    /\ TypeOf(raw) \in {ShellType, PythonType, HttpType}
    /\ TypeOf(raw) = ShellType => Get(raw, "command", <<>>) # <<>>
    /\ TypeOf(raw) = PythonType => Get(raw, "code", <<>>) # <<>>
    /\ TypeOf(raw) = HttpType => Get(raw, "url", <<>>) # <<>>

\* Step(raw): the fields Step.__init__ sets, those the run reads
StepInit(raw) ==
    Step(Get(raw, "name", UnnamedStep),
         TypeTag(TypeOf(raw)),
         Get(raw, "continue_on_error", FALSE),
         Get(raw, "url", <<>>),
         Get(raw, "headers", <<>>),
         Get(raw, "json", <<>>))

\* load_workflow's loop over raw_steps: every raw step makes a Step
Loadable(d) == \A i \in DOMAIN d : ValidStep(d[i])
Loaded(d) == [i \in DOMAIN d |-> StepInit(d[i])]

\* the way the explored documents spell the type of a step
Spelling(type) ==
    CASE type = "shell" -> ShellType
      [] type = "python" -> <<"P", "y", "t", "h", "o", "n">>
      [] OTHER -> <<"H", "T", "T", "P">>

CommandText == <<"c">>
CodeText == <<"p">>

\* the raw step an explored Step is loaded from
Document(step) ==
    ("name" :> step.name)
    @@ ("type" :> Spelling(step.type))
    @@ ("continue_on_error" :> step.continue_on_error)
    @@ (CASE step.type = "shell" -> ("command" :> CommandText)
          [] step.type = "python" -> ("code" :> CodeText)
          [] OTHER -> ("url" :> step.url)
                      @@ ("headers" :> step.headers)
                      @@ ("json" :> step.json))

\* raw steps that Step.__init__ refuses: a type that is none of the three, a shell
\* step without `command`, a scripted step whose `code` is empty, an HTTP step
\* whose `url` is empty
InvalidDocs ==
    {("name" :> <<"S">>) @@ ("type" :> <<"b", "a", "s", "h">>)
        @@ ("command" :> CommandText),
     ("name" :> <<"S">>) @@ ("type" :> <<"S", "h", "e", "l", "l">>),
     ("name" :> <<"A">>) @@ ("type" :> PythonType)
        @@ ("code" :> <<>>),
     ("name" :> <<"H">>) @@ ("type" :> HttpType)
        @@ ("url" :> <<>>) @@ ("continue_on_error" :> TRUE)}

RawDocs == {Document(s) : s \in StepDocs} \cup InvalidDocs

Documents == UNION {[1..n -> RawDocs] : n \in 0..MaxSteps}

RunEnv == [k \in {<<"X">>} |-> <<"5">>]

\* the values the scripts of the explored workflows bind to `return`
RunValues == {IntVal(42)}

\* What the world outside the runner does when a step runs.
\* a shell command: the subprocess exits with a code, or outlives the timeout
\* (that it cannot be spawned, which run_shell answers with code 1, is not explored)
ShellWorld ==
    {[does |-> "exit", code |-> c, value |-> NoneVal] : c \in {0, 3}}
    \cup {[does |-> "timeout", code |-> 0, value |-> NoneVal]}
\* a script: prints its text, then runs to its end (binding `return` to a value,
\* or not), raises an Exception, or raises SystemExit(code) (sys.exit, exit());
\* on its way it leaves its `results` variable alone, assigns a key of it (the
\* name of the scripted steps, or another key), or clears it
ScriptWorld ==
    {[does |-> "finish", code |-> 0, value |-> v, uses |-> "nothing", key |-> <<>>]
        : v \in RunValues \cup {NoneVal}}
    \cup {[does |-> "finish", code |-> 0, value |-> NoneVal, uses |-> "assign", key |-> n]
            : n \in Names}
    \cup {[does |-> "finish", code |-> 0, value |-> NoneVal, uses |-> "clear", key |-> <<>>]}
    \cup {[does |-> "raise", code |-> 0, value |-> NoneVal, uses |-> "nothing", key |-> <<>>]}
    \cup {[does |-> "sysexit", code |-> c, value |-> NoneVal, uses |-> "nothing", key |-> <<>>]
            : c \in {0, 3}}
\* an HTTP request: answered with a status, or the transport fails
HttpWorld ==
    {[does |-> "respond", code |-> c, value |-> NoneVal] : c \in {200, 404}}
    \cup {[does |-> "neterror", code |-> 0, value |-> NoneVal]}

World(step) ==
    CASE step.type = "shell" -> ShellWorld
      [] step.type = "python" -> ScriptWorld
      [] OTHER -> HttpWorld

NotSent == [sent |-> FALSE, url |-> <<>>, headers |-> <<>>, json |-> <<>>]

\* What an executor hands back: ret, the value of `return` (python), the request
\* issued (http), or raised: the exit status of an exception it let through.
Returned(code, value, req) == [ret |-> code, returned |-> value, request |-> req, raised |-> NoCode]
Raised(status) == [ret |-> NoCode, returned |-> NoneVal, request |-> NotSent, raised |-> status]

run_shell(w) ==
    CASE w.does = "exit" -> Returned(w.code, NoneVal, NotSent)
      [] w.does = "timeout" -> Returned(124, NoneVal, NotSent)
      [] OTHER -> Returned(1, NoneVal, NotSent)

\* except Exception: SystemExit is a BaseException and is not caught
run_python(w, results) ==
    CASE w.does = "finish" -> Returned(0, w.value, NotSent)
      [] w.does = "raise" -> Returned(1, NoneVal, NotSent)
      [] OTHER -> Raised(w.code)

\* run_http after the url: header values and JSON-body values interpolated
Requested(url, step, e, results) ==
    [sent |-> TRUE,
     url |-> url,
     headers |-> [h \in DOMAIN step.headers |-> interpolate(step.headers[h], e, results)],
     json |-> [j \in DOMAIN step.json |-> interpolate(Str(step.json[j]), e, results)]]

\* run_http up to the request: url, header values and JSON-body values interpolated
HttpRequest(step, e, results) ==
    Requested(interpolate(step.url, e, results), step, e, results)

\* run_http from the request on: the code for the response, or 1 for an exception
run_http(req, w) ==
    IF w.does = "respond"
    THEN Returned(IF 200 <= w.code /\ w.code < 300 THEN 0 ELSE w.code, NoneVal, req)
    ELSE Returned(1, NoneVal, req)

\* the request an HTTP step is about to issue; NotSent for the other step types
Prepared(step, e, results) ==
    IF step.type = "http" THEN HttpRequest(step, e, results) ELSE NotSent

\* exec_fn() of execute_step, req being the request the step has prepared
ExecFn(step, req, results, w) ==
    CASE step.type = "shell" -> run_shell(w)
      [] step.type = "python" -> run_python(w, results)
      [] OTHER -> run_http(req, w)

\* the results map after exec(code, ..., {"results": results}): the script holds
\* the map itself, so what it does to its variable is done to the map
Used(results, step, w) ==
    IF step.type # "python" THEN results
    ELSE CASE w.uses = "assign" ->
                [n \in DOMAIN results \cup {w.key} |->
                    IF n = w.key THEN Entry(IntVal(42)) ELSE results[n]]
           [] w.uses = "clear" -> <<>>
           [] OTHER -> results

\* the stores into the results map made by the script of step k
ScriptStores(k, step, w) ==
    IF step.type = "python" /\ w.uses = "assign"
    THEN {[key |-> w.key, by |-> k, via |-> "script"]}
    ELSE {}

\* execute_step stores results[step.name]: a python step that returned a value
Recorded(step, o) == step.type = "python" /\ o.raised = NoCode /\ o.returned # NoneVal

\* the store into the results map made by execute_step for step k
RecordStores(k, step, o) ==
    IF Recorded(step, o) THEN {[key |-> step.name, by |-> k, via |-> "record"]} ELSE {}

\* the streams: the one installed when the process started, the StringIO of step k
Console == {}
BufferOf(k) == {k}

\* the script of step k prints: the text goes to the stream installed at that
\* moment, the StringIO of a step whose script is still inside its redirection
\* (or the console, or a StringIO nobody reads any more)
Printed(cap, k, stream, pos) ==
    [j \in DOMAIN cap |->
        IF stream = BufferOf(j) /\ pos[j] = "script" THEN cap[j] \cup {k} ELSE cap[j]]

\* results[step.name] = {"result": returned}, for a python step that returned a value
Record(results, step, o) ==
    IF step.type = "python" /\ o.raised = NoCode /\ o.returned # NoneVal
    THEN [n \in DOMAIN results \cup {step.name} |->
             IF n = step.name THEN Entry(o.returned) ELSE results[n]]
    ELSE results

\* what execute_step returns: success or step.continue_on_error
StepOkStrict(code, coe) == code = 0
StepOk(code, coe) == code = 0 \/ coe

\* the sequential loop leaves on a failed step unless --verbose
BreaksNever(v) == FALSE
Breaks(v) == ~v

\* raise typer.Exit(0) / raise typer.Exit(1)
Verdict(ok) == IF ok THEN 0 ELSE 1

\* the futures submitted to the pool, one per step
FuturesButFirst(s) == DOMAIN s \ {1}
Futures(s) == DOMAIN s

Terminal(k) == st[k] \in {"succeeded", "failed", "raised"}

Init ==
    /\ steps \in Workflows
    /\ parallel \in BOOLEAN
    /\ parallel => Len(steps) <= MaxWorkers
    /\ verbose \in BOOLEAN
    \* --verbose is read by the sequential loop only: parallel runs are explored without it
    /\ parallel => ~verbose
    /\ env = RunEnv
    /\ pc = "start"
    /\ idx = 0
    /\ st = [k \in DOMAIN steps |-> "pending"]
    /\ ret = [k \in DOMAIN steps |-> NoCode]
    /\ returned = [k \in DOMAIN steps |-> NoneVal]
    /\ exc = [k \in DOMAIN steps |-> NoCode]
    /\ calls = [k \in DOMAIN steps |-> 0]
    /\ request = [k \in DOMAIN steps |-> NotSent]
    /\ step_results = <<>>
    /\ success = TRUE
    /\ collected = {}
    /\ raising = NoCode
    /\ exit_code = NoCode
    /\ doc = [k \in DOMAIN steps |-> Document(steps[k])]
    /\ where = [k \in DOMAIN steps |-> "out"]
    /\ sys_stdout = Console
    /\ saved = [k \in DOMAIN steps |-> Console]
    /\ captured = [k \in DOMAIN steps |-> {}]
    /\ writes = {}
    /\ InterpIdle

\* the options and the loaded workflow, which no step of run changes
given == <<steps, parallel, verbose, env, doc>>

\* `not steps`
NothingToDoNever(s) == FALSE
NothingToDo(s) == s = <<>>

\* if not steps: raise typer.Exit(0)
NoSteps ==
    /\ pc = "start"
    /\ NothingToDo(steps)
    /\ pc' = "done"
    /\ exit_code' = 0
    /\ UNCHANGED <<idx, st, ret, returned, exc, calls, request,
                   step_results, success, collected, raising, where, writes>>
    /\ UNCHANGED <<given, svars, ivars>>

\* success = True; step_results = {}; the progress display; the choice of strategy
Setup ==
    /\ pc = "start"
    /\ ~NothingToDo(steps)
    /\ success' = TRUE
    /\ step_results' = <<>>
    /\ pc' = IF parallel THEN "submit" ELSE "loop"
    /\ idx' = IF parallel THEN 0 ELSE 1
    /\ UNCHANGED <<st, ret, returned, exc, calls, request,
                   collected, raising, exit_code, where, writes>>
    /\ UNCHANGED <<given, svars, ivars>>

\* execute_step up to the call of exec_fn: the executor of step k is invoked,
\* and its thread gets to pos
Invoke(k, pos) ==
    /\ st[k] = "pending"
    /\ st' = [st EXCEPT ![k] = "running"]
    /\ calls' = [calls EXCEPT ![k] = @ + 1]
    /\ where' = [where EXCEPT ![k] = pos]

\* execute_step from the return of exec_fn: the outcome o of step k is recorded,
\* results being the map as the executor left it and stores the stores made
Complete(k, o, results, stores) ==
    /\ st[k] = "running"
    /\ st' = [st EXCEPT ![k] = IF o.raised # NoCode THEN "raised"
                               ELSE IF o.ret = 0 THEN "succeeded" ELSE "failed"]
    /\ ret' = [ret EXCEPT ![k] = o.ret]
    /\ returned' = [returned EXCEPT ![k] = o.returned]
    /\ exc' = [exc EXCEPT ![k] = o.raised]
    /\ request' = [request EXCEPT ![k] = o.request]
    /\ step_results' = Record(results, steps[k], o)
    /\ writes' = writes \cup stores
    /\ where' = [where EXCEPT ![k] = "out"]

\* sequential: the loop calls execute_step on the next step
SeqStart ==
    /\ pc = "loop"
    /\ idx \in DOMAIN steps
    /\ Invoke(idx, "call")
    /\ UNCHANGED <<pc, idx, ret, returned, exc, request,
                   step_results, success, collected, raising, exit_code, writes>>
    /\ UNCHANGED <<given, svars, ivars>>

\* `for step in steps`: the step after step i
AdvanceSkipping(i) == i + 2
Advance(i) == i + 1

\* sequential: execute_step returns, and the loop goes on, or ends (after the
\* last step, or by break) with the verdict; or execute_step lets an exception
\* through, which leaves run and ends the process with its exit status.
\* There is one thread: a script's redirection is entered and left, and its text
\* printed in between, with nothing else running.
SeqFinish ==
    /\ pc = "loop"
    /\ idx \in DOMAIN steps
    /\ \E req \in {Prepared(steps[idx], env, step_results)} :
       \E w \in World(steps[idx]) :
       \E o \in {ExecFn(steps[idx], req, step_results, w)} :
       \E ok \in {StepOk(o.ret, steps[idx].continue_on_error)} :
         /\ Complete(idx, o, Used(step_results, steps[idx], w),
                     ScriptStores(idx, steps[idx], w) \cup RecordStores(idx, steps[idx], o))
         /\ IF o.raised # NoCode
            THEN /\ pc' = "aborted"
                 /\ raising' = o.raised
                 /\ exit_code' = o.raised
                 /\ UNCHANGED <<idx, success>>
            ELSE /\ success' = (success /\ ok)
                 /\ raising' = raising
                 /\ IF (~ok /\ Breaks(verbose)) \/ Advance(idx) > Len(steps)
                    THEN /\ pc' = "done"
                         /\ exit_code' = Verdict(success')
                         /\ idx' = idx
                    ELSE /\ pc' = "loop"
                         /\ exit_code' = exit_code
                         /\ idx' = Advance(idx)
    /\ captured' = IF steps[idx].type = "python"
                   THEN Printed(captured, idx, BufferOf(idx), [where EXCEPT ![idx] = "script"])
                   ELSE captured
    /\ UNCHANGED <<saved, sys_stdout>>
    /\ UNCHANGED <<calls, collected>>
    /\ UNCHANGED <<given, ivars>>

\* parallel: ex.submit(execute_step, ...) for every step
Submit ==
    /\ pc = "submit"
    /\ pc' = "collect"
    /\ UNCHANGED <<idx, st, ret, returned, exc, calls, request,
                   step_results, success, collected, raising, exit_code, where, writes>>
    /\ UNCHANGED <<given, svars, ivars>>

\* where the thread of a step is when its executor is about to come back
Inside(step) ==
    CASE step.type = "shell" -> "call"
      [] step.type = "python" -> "script"
      [] OTHER -> "interpolating"

\* parallel: a pool thread takes the work item of step k, calls execute_step and
\* the executor starts. run_python enters its redirection: the stream installed
\* is saved and the step's StringIO installed; run_http interpolates the url,
\* reading the results map; run_shell starts the command. (Up to there the
\* thread touches nothing another thread reads, so this is one step.)
WorkerStart(k) ==
    /\ pc \in {"collect", "unwind"}
    /\ parallel
    /\ k \in Futures(steps)
    /\ Invoke(k, Inside(steps[k]))
    /\ IF steps[k].type = "python"
       THEN /\ saved' = [saved EXCEPT ![k] = sys_stdout]
            /\ sys_stdout' = BufferOf(k)
       ELSE UNCHANGED <<saved, sys_stdout>>
    /\ IF steps[k].type = "http"
       THEN request' = [request EXCEPT
                          ![k] = [NotSent EXCEPT
                                    !.url = interpolate(steps[k].url, env, step_results)]]
       ELSE UNCHANGED request
    /\ UNCHANGED <<pc, idx, ret, returned, exc, captured,
                   step_results, success, collected, raising, exit_code, writes>>
    /\ UNCHANGED <<given, ivars>>

\* parallel: the executor of step k comes back in its thread. A script has
\* printed its text to the stream installed at that moment and used the results
\* map, and its redirection puts back the stream it saved; an HTTP step has
\* interpolated its headers and body and had its answer. A scripted step that
\* returned a value is then about to store it; any other step returns from
\* execute_step: the future holds the flag, or the exception let through.
WorkerFinish(k) ==
    /\ parallel
    /\ k \in Futures(steps)
    /\ st[k] = "running"
    /\ where[k] = Inside(steps[k])
    /\ \E req \in {IF steps[k].type = "http"
                   THEN Requested(request[k].url, steps[k], env, step_results)
                   ELSE NotSent} :
       \E w \in World(steps[k]) :
       \E o \in {ExecFn(steps[k], req, step_results, w)} :
         IF Recorded(steps[k], o)
         THEN /\ ret' = [ret EXCEPT ![k] = o.ret]
              /\ returned' = [returned EXCEPT ![k] = o.returned]
              /\ step_results' = Used(step_results, steps[k], w)
              /\ writes' = writes \cup ScriptStores(k, steps[k], w)
              /\ where' = [where EXCEPT ![k] = "recording"]
              /\ UNCHANGED <<st, exc, request>>
         ELSE Complete(k, o, Used(step_results, steps[k], w), ScriptStores(k, steps[k], w))
    /\ IF steps[k].type = "python"
       THEN /\ captured' = Printed(captured, k, sys_stdout, where)
            /\ sys_stdout' = saved[k]
            /\ saved' = [saved EXCEPT ![k] = Console]
       ELSE UNCHANGED <<captured, sys_stdout, saved>>
    /\ UNCHANGED <<pc, idx, calls, success, collected, raising, exit_code>>
    /\ UNCHANGED <<given, ivars>>

\* parallel: the scripted step k stores results[step.name] and returns from
\* execute_step
WorkerRecord(k) ==
    /\ parallel
    /\ k \in Futures(steps)
    /\ where[k] = "recording"
    /\ \E o \in {Returned(ret[k], returned[k], NotSent)} :
         Complete(k, o, step_results, RecordStores(k, steps[k], o))
    /\ UNCHANGED <<pc, idx, calls, success, collected, raising, exit_code>>
    /\ UNCHANGED <<given, svars, ivars>>

\* parallel: as_completed hands the main thread a finished future and f.result()
\* returns its flag or re-raises its exception; after the last future the pool is
\* left and the verdict given
Collect(k) ==
    /\ pc = "collect"
    /\ k \in Futures(steps) \ collected
    /\ Terminal(k)
    /\ collected' = collected \cup {k}
    /\ IF st[k] = "raised"
       THEN /\ pc' = "unwind"
            /\ raising' = exc[k]
            /\ UNCHANGED <<success, exit_code>>
       ELSE /\ success' = (success /\ StepOk(ret[k], steps[k].continue_on_error))
            /\ raising' = raising
            /\ IF collected' = Futures(steps)
               THEN pc' = "done" /\ exit_code' = Verdict(success')
               ELSE pc' = "collect" /\ exit_code' = exit_code
    /\ UNCHANGED <<idx, st, ret, returned, exc, calls, request,
                   step_results, where, writes>>
    /\ UNCHANGED <<given, svars, ivars>>

\* parallel: the exception leaves the pool's with-block once shutdown(wait=True)
\* has joined every worker, then leaves run and ends the process with its exit status
Abort ==
    /\ pc = "unwind"
    /\ \A k \in Futures(steps) : Terminal(k)
    /\ pc' = "aborted"
    /\ exit_code' = raising
    /\ UNCHANGED <<idx, st, ret, returned, exc, calls, request,
                   step_results, success, collected, raising, where, writes>>
    /\ UNCHANGED <<given, svars, ivars>>

Next ==
    \/ NoSteps
    \/ Setup
    \/ SeqStart
    \/ SeqFinish
    \/ Submit
    \/ \E k \in DOMAIN steps : WorkerStart(k)
    \/ \E k \in DOMAIN steps : WorkerFinish(k)
    \/ \E k \in DOMAIN steps : WorkerRecord(k)
    \/ \E k \in DOMAIN steps : Collect(k)
    \/ Abort

Spec == Init /\ [][Next]_vars

(***************************************************************************)
(* SpecLoad: the run command from the document on: load_workflow, then     *)
(* the run as in Spec.                                                     *)
(***************************************************************************)
InitLoad ==
    /\ doc \in Documents
    /\ parallel \in BOOLEAN
    /\ parallel => Len(doc) <= MaxWorkers
    /\ verbose \in BOOLEAN
    \* --verbose is read by the sequential loop only: parallel runs are explored without it
    /\ parallel => ~verbose
    /\ env = RunEnv
    /\ pc = "load"
    /\ steps = <<>> /\ idx = 0 /\ st = <<>> /\ ret = <<>> /\ returned = <<>> /\ exc = <<>>
    /\ calls = <<>> /\ request = <<>> /\ step_results = <<>>
    /\ success = TRUE /\ collected = {} /\ raising = NoCode /\ exit_code = NoCode
    /\ where = <<>> /\ sys_stdout = Console /\ saved = <<>> /\ captured = <<>>
    /\ writes = {}
    /\ InterpIdle

\* load_workflow: a Step is made of every raw step of the document, in order;
\* the first one Step.__init__ refuses ends the process with exit code 1
LoadWorkflow ==
    /\ pc = "load"
    /\ IF Loadable(doc)
       THEN /\ steps' = Loaded(doc)
            /\ pc' = "start"
            /\ st' = [k \in DOMAIN doc |-> "pending"]
            /\ ret' = [k \in DOMAIN doc |-> NoCode]
            /\ returned' = [k \in DOMAIN doc |-> NoneVal]
            /\ exc' = [k \in DOMAIN doc |-> NoCode]
            /\ calls' = [k \in DOMAIN doc |-> 0]
            /\ request' = [k \in DOMAIN doc |-> NotSent]
            /\ where' = [k \in DOMAIN doc |-> "out"]
            /\ saved' = [k \in DOMAIN doc |-> Console]
            /\ captured' = [k \in DOMAIN doc |-> {}]
            /\ exit_code' = exit_code
       ELSE /\ pc' = "rejected"
            /\ exit_code' = 1
            /\ UNCHANGED <<steps, st, ret, returned, exc, calls, request, where, saved,
                           captured>>
    /\ UNCHANGED <<parallel, verbose, env, doc, idx, step_results, success, collected,
                   raising, sys_stdout, writes>>
    /\ UNCHANGED ivars

NextLoad ==
    \/ LoadWorkflow
    \/ Next

SpecLoad == InitLoad /\ [][NextLoad]_vars

(***************************************************************************)
(* Properties.                                                             *)
(***************************************************************************)
\* the executor of step k returned a non-zero code
Failed(k) == st[k] = "failed"
HardFailed(k) == Failed(k) /\ ~steps[k].continue_on_error
SoftFailed(k) == Failed(k) /\ steps[k].continue_on_error
\* the executor of step k was invoked
Executed(k) == st[k] # "pending"
\* the process has exited
Ended == pc \in {"done", "aborted"}
Sequential == pc # "idle" /\ ~parallel
Parallel == pc # "idle" /\ parallel

\* C1, as stated: in every sequential run, whatever its options, once a step with
\* continue_on_error=false has failed no step declared after it is executed, and
\* the run ends with exit code 1.
C1_AnyOptions ==
    Sequential =>
        \A k \in DOMAIN steps :
            HardFailed(k) =>
                /\ \A j \in DOMAIN steps : j > k => ~Executed(j)
                /\ Ended => exit_code = 1

\* C1, amended: in a sequential run started without --verbose, once a step with
\* continue_on_error=false has failed no step declared after it is executed, and
\* the run has ended with the failure verdict, exit code 1.
C1_StopsOnHardFailure ==
    (Sequential /\ ~verbose) =>
        \A k \in DOMAIN steps :
            HardFailed(k) =>
                /\ \A j \in DOMAIN steps : j > k => ~Executed(j)
                /\ pc = "done"
                /\ exit_code = 1

\* C1's case: without --verbose, a step that is not the last one has failed hard
\* after an earlier step ran
C1_Witness ==
    /\ Sequential /\ ~verbose
    /\ \E k \in DOMAIN steps : HardFailed(k) /\ 1 < k /\ k < Len(steps)

C3_SoftFailureNeverHalts ==
    (Sequential /\ Ended) =>
        \A k \in DOMAIN steps :
            SoftFailed(k) =>
                \A j \in DOMAIN steps :
                    (/\ j > k
                     /\ ~(\E h \in 1..(j - 1) :
                            st[h] \in {"failed", "raised"} /\ ~steps[h].continue_on_error))
                    => Executed(j)

\* C4: in a parallel run the executor of every step is invoked at most once, and
\* once the run has ended it has been invoked exactly once and has come back,
\* whatever the other steps did.
C4_EveryStepExactlyOnce ==
    Parallel =>
        \A k \in DOMAIN steps :
            /\ calls[k] <= 1
            /\ Ended => (calls[k] = 1 /\ Terminal(k))

\* C4's case: a parallel run of two steps or more has ended; one step failed with
\* continue_on_error=false and another step was executed all the same
C4_Witness ==
    /\ Parallel /\ Ended
    /\ \E k, j \in DOMAIN steps : k # j /\ HardFailed(k) /\ calls[j] = 1 /\ Terminal(j)

\* C5: a parallel run ends only after every step has reached a terminal state,
\* and its exit code is 1 if and only if a step failed with continue_on_error=false,
\* and 0 otherwise.
C5_ParallelVerdict ==
    (Parallel /\ Ended) =>
        /\ \A k \in DOMAIN steps : Terminal(k)
        /\ exit_code = (IF \E k \in DOMAIN steps : HardFailed(k) THEN 1 ELSE 0)

\* C6: interpolate replaces {{steps['N'].result}}, the name in single or in double
\* quotes, by str(results[N]["result"]) when results has it, and leaves the
\* placeholder as it is when N is absent.
C6_StepsPlaceholderResolved ==
    ipc = "done" =>
        \A q \in QuoteChars : \A N \in Names :
            text = StepsPH(q, N, ResultKey) =>
                out = (IF N \in DOMAIN ires THEN Str(ires[N][ResultKey]) ELSE text)

\* the names of the steps are pairwise different
UniqueNames == \A k, j \in DOMAIN steps : steps[k].name = steps[j].name => k = j

\* C7: in a sequential run with unique step names, once the scripted step N has
\* finished with `return` bound to v, results[N] is {result: v}, and an HTTP step
\* executed later whose url and JSON-body value hold {{steps['N'].result}} has
\* issued its request with str(v) in the placeholder's place.
C7_ResultReachesLaterHttpStep ==
    (Sequential /\ UniqueNames) =>
        \A k \in DOMAIN steps :
            (steps[k].type = "python" /\ Terminal(k) /\ returned[k] # NoneVal) =>
                /\ steps[k].name \in DOMAIN step_results
                /\ step_results[steps[k].name] = Entry(returned[k])
                /\ \A j \in DOMAIN steps :
                     (/\ j > k
                      /\ request[j].sent
                      /\ steps[j].url = UrlBase \o StepsPH("'", steps[k].name, ResultKey))
                     => /\ request[j].url = UrlBase \o Str(returned[k])
                        /\ request[j].json[JsonKey] = Str(returned[k])

\* the texts of C8: one {{env.K}} placeholder between two pieces that are plain
\* text, another env placeholder, or nothing
C8_Around == PlainSegs \cup EnvSegs \cup {<<>>}

\* what C8 expects in the place of a piece: env[K] for the placeholder {{env.K}}
\* of a key the env map has, the piece itself otherwise
C8_Expected(seg, e) ==
    IF \E K \in DOMAIN e : seg = EnvPH(K)
    THEN e[CHOOSE K \in DOMAIN e : seg = EnvPH(K)]
    ELSE seg

\* C8: interpolate replaces {{env.K}} by env[K] when the env map has K and leaves
\* the placeholder as it is, not blanked, when it has not; the results map plays
\* no part in it.
C8_EnvPlaceholder ==
    ipc = "done" =>
        \A K \in Keys : \A a \in C8_Around : \A b \in C8_Around :
            text = a \o EnvPH(K) \o b =>
                out = C8_Expected(a, ienv) \o C8_Expected(EnvPH(K), ienv) \o C8_Expected(b, ienv)

\* C8's case: {{env.Y}} interpolated with an env map that lacks Y, and a results
\* map that is not empty
C8_Witness ==
    /\ ipc = "done"
    /\ text = <<"a">> \o EnvPH(<<"Y">>)
    /\ <<"X">> \in DOMAIN ienv
    /\ <<"Y">> \notin DOMAIN ienv
    /\ ires # <<>>
    /\ out = text

\* t holds no recognized placeholder: nowhere "{{" is followed at once by "env."
\* or "steps[" and, later, by "}}"
NoRecognizedPlaceholder(t) ==
    ~(\E p \in 1..Len(t) :
        /\ OccursAt(OpenBraces, t, p)
        /\ OccursAt(EnvPrefix, t, p + 2) \/ OccursAt(StepsPrefix, t, p + 2)
        /\ FindFrom(t, CloseBraces, p + 2) # 0)

\* C9: interpolate returns a text that holds no recognized placeholder as it is,
\* whatever the env and results maps.
C9_NoPlaceholderUnchanged ==
    (ipc = "done" /\ NoRecognizedPlaceholder(text)) => out = text

\* C9's case: bracketed content that is not a placeholder of either grammar,
\* interpolated with maps that are not empty
C9_Witness ==
    /\ ipc = "done"
    /\ text = Placeholder(<<" ">> \o EnvPrefix \o <<"X">>) \o Placeholder(<<"z">>)
    /\ <<"X">> \in DOMAIN ienv
    /\ ires # <<>>
    /\ out = text

\* C10: no executor lets an exception through: every invocation comes back with
\* a code, and no run is ended by an exception.
C10_NoExceptionEscapes ==
    /\ \A k \in DOMAIN steps : exc[k] = NoCode /\ st[k] # "raised"
    /\ pc # "aborted"

\* a raw step is invalid: its type, compared without regard to case, is none of
\* shell, python, http, or the field its type requires is missing or empty
InvalidStep(raw) ==
    LET type == Lower(IF "type" \in DOMAIN raw THEN raw["type"] ELSE <<>>)
        Empty(f) == f \notin DOMAIN raw \/ raw[f] = <<>>
    IN  \/ type \notin {ShellType, PythonType, HttpType}
        \/ type = ShellType /\ Empty("command")
        \/ type = PythonType /\ Empty("code")
        \/ type = HttpType /\ Empty("url")

\* C11: a run whose document holds an invalid step never gets past loading: no
\* Step is kept, no executor is invoked, and the run is rejected with exit code 1,
\* valid steps declared before the invalid one included; and a run is rejected
\* only for an invalid step, at loading, never once execution has started.
C11_InvalidStepAborts ==
    pc # "idle" =>
        /\ (\E i \in DOMAIN doc : InvalidStep(doc[i])) =>
             /\ pc \in {"load", "rejected"}
             /\ steps = <<>>
             /\ \A k \in DOMAIN calls : calls[k] = 0
             /\ pc = "rejected" => exit_code = 1
        /\ pc = "rejected" => \E i \in DOMAIN doc : InvalidStep(doc[i])
        /\ (\E k \in DOMAIN st : Executed(k)) => pc # "rejected"

\* C11's case: a document whose first step is valid and whose second step is a
\* shell step (spelled Shell) without command has been rejected
C11_Witness ==
    /\ pc = "rejected"
    /\ exit_code = 1
    /\ Len(doc) >= 2
    /\ ~InvalidStep(doc[1])
    /\ doc[2]["type"] = <<"S", "h", "e", "l", "l">>
    /\ "command" \notin DOMAIN doc[2]

\* C12: a run of a workflow without steps, sequential or parallel, goes from its
\* start straight to its end with exit code 0: it never enters the loop nor
\* creates the pool, no executor is invoked and nothing is stored in the results
\* map.
C12_EmptyWorkflowSucceeds ==
    (pc # "idle" /\ steps = <<>>) =>
        /\ pc \in {"start", "done"}
        /\ pc = "done" => exit_code = 0
        /\ pc = "start" => exit_code = NoCode
        /\ calls = <<>>
        /\ collected = {}
        /\ step_results = <<>>
        /\ writes = {}

\* C12's case: a parallel run of a workflow without steps has ended
C12_Witness ==
    /\ steps = <<>>
    /\ parallel
    /\ pc = "done"
    /\ exit_code = 0

\* the thread of step k is about to store results[step.name] (execute_step)
Writing(k) == where[k] = "recording"
\* the thread of step k is reading the results map for its request: it has
\* interpolated the url and has the headers and the body still to interpolate
Reading(k) == where[k] = "interpolating"

\* C13: in a parallel run no two step tasks are inside an access to the results
\* map at the same time when one of them is writing it: a task storing
\* results[name] excludes every other task storing or reading for interpolation.
C13_ResultsMapExclusion ==
    Parallel =>
        \A j, k \in DOMAIN steps :
            (j # k /\ Writing(j)) => ~(Writing(k) \/ Reading(k))

\* run_python has come back for the scripted step k with the captured text
Captured(k) == steps[k].type = "python" /\ ret[k] # NoCode

\* C14: in a parallel run the text captured for a scripted step is the text its
\* own script printed, nothing of another step's and nothing missing, and once
\* every step has finished the process-wide output stream is the one installed
\* when the run started.
C14_OwnOutputOnly ==
    Parallel =>
        /\ \A k \in DOMAIN steps : Captured(k) => captured[k] = {k}
        /\ (\A k \in DOMAIN steps : Terminal(k)) => sys_stdout = Console

\* the entry of key n is the same in the results maps r and s: absent from both,
\* or in both with one value
SameEntry(r, s, n) ==
    /\ n \in DOMAIN r <=> n \in DOMAIN s
    /\ n \in DOMAIN r => r[n] = s[n]

\* the script of step k is run in this step: from before exec to after it
RunsScript(k) ==
    /\ steps[k].type = "python"
    /\ where[k] \in {"call", "script"}
    /\ where'[k] \in {"recording", "out"}

\* C15: a step in which the script of a scripted step named N runs leaves every
\* entry of the results map other than results[N] as it was, and changes
\* results[N] in one way only: execute_step storing the value the script bound
\* to `return`, once the script has finished.
C15_ScriptCannotChangeResults ==
    [][\A k \in DOMAIN steps :
          RunsScript(k) =>
             /\ \A n \in (DOMAIN step_results \cup DOMAIN step_results') \ {steps[k].name} :
                   SameEntry(step_results, step_results', n)
             /\ \/ SameEntry(step_results, step_results', steps[k].name)
                \/ /\ where'[k] = "out"
                   /\ returned'[k] # NoneVal
                   /\ steps[k].name \in DOMAIN step_results'
                   /\ step_results'[steps[k].name] = Entry(returned'[k])]_vars

\* the stores execute_step has made into the results map (results[step.name] = ...)
RecordWrites == {a \in writes : a.via = "record"}

\* C16: during a run, sequential or parallel, execute_step stores each key of the
\* results map at most once, and only for a scripted step carrying that name,
\* steps of one name included; and the step in which a shell or an HTTP step is
\* executed leaves the results map as it was.
C16_EachKeyWrittenOnce ==
    /\ [](\A a \in RecordWrites :
             /\ steps[a.by].type = "python"
             /\ steps[a.by].name = a.key
             /\ \A b \in RecordWrites : b.key = a.key => b = a)
    /\ [][\A k \in DOMAIN steps :
             (steps[k].type # "python" /\ st[k] = "running" /\ st'[k] # "running")
                => step_results' = step_results]_vars

\* C17: in a sequential run at most one step is running, a step is executed only
\* after every step declared before it has succeeded or failed, and so the
\* executed steps are a prefix of the declared list.
C17_SequentialOrder ==
    Sequential =>
        /\ Cardinality({k \in DOMAIN steps : st[k] = "running"}) <= 1
        /\ \A k \in DOMAIN steps :
             Executed(k) =>
                \A j \in DOMAIN steps : j < k => st[j] \in {"succeeded", "failed"}
        /\ \E n \in 0..Len(steps) : {k \in DOMAIN steps : Executed(k)} = 1..n

\* C17's case: in a sequential run the third step is running after the first
\* step succeeded and the second failed
C17_Witness ==
    /\ Sequential
    /\ Len(steps) >= 3
    /\ st[1] = "succeeded"
    /\ st[2] = "failed"
    /\ st[3] = "running"

\* C18: a sequential run started with --verbose that has ended has executed every
\* declared step, whatever the earlier steps did, and its exit code is 1 if a
\* step failed with continue_on_error=false and 0 otherwise.
C18_VerboseRunsEveryStep ==
    (Sequential /\ verbose /\ Ended) =>
        /\ \A k \in DOMAIN steps : Executed(k)
        /\ exit_code = (IF \E k \in DOMAIN steps : HardFailed(k) THEN 1 ELSE 0)

\* the script of step k has raised, or has finished without a value for `return`
NothingReturned(k) == st[k] \in {"failed", "raised"} \/ returned[k] = NoneVal

\* C19: a step in which a scripted step's script raises, or finishes without a
\* value bound to `return`, leaves results[step.name] as it was, kept if it was
\* there and absent if it was not; and an HTTP step whose url and body refer to
\* {{steps['A'].result}} while nothing was ever stored under A has issued its
\* request with the placeholder as it is.
C19_NoValueNoEntry ==
    /\ [][\A k \in DOMAIN steps :
             (RunsScript(k) /\ where'[k] = "out" /\ NothingReturned(k)')
                => SameEntry(step_results, step_results', steps[k].name)]_vars
    /\ [](\A j \in DOMAIN steps :
             (/\ request[j].sent
              /\ steps[j].url = UrlBase \o StepsPH("'", <<"A">>, ResultKey)
              /\ ~(\E a \in writes : a.key = <<"A">>))
             => /\ request[j].url = steps[j].url
                /\ request[j].json[JsonKey] = StepsPH("'", <<"A">>, ResultKey))

====
